---- MODULE Spec2Model ----
(***************************************************************************)
(* A model of VP_Wall_Builder.py: the LED wall geometry engine             *)
(* (calculate_geometry, generate_vertex_data, generate_faces, save_obj),   *)
(* the summary text (update_data_window) and the three GUI handlers that   *)
(* drive them (update_preview, generate_obj, generate_test_image).         *)
(*                                                                         *)
(* Numbers.  A field's text is a sequence of characters.  Real values are  *)
(* exact: a rational is [op |-> "rat", n, d] in lowest terms with d > 0;   *)
(* values that need sin, cos or pi are kept as terms over exact rational   *)
(* angles measured in degrees.  Python's floats are therefore modelled     *)
(* without rounding error; the only rounding is the one the format         *)
(* specifications :.2f and :.6f perform.                                   *)
(*                                                                         *)
(* Exceptions.  A method gives a record whose field exc names the          *)
(* exception it raised ("none" when it returned).                          *)
(*                                                                         *)
(* Two specifications.  Spec is the window: its construction, then text    *)
(* changes and button presses in any order; an exception that leaves a     *)
(* slot is recorded in event.raised and the event loop goes on.  GeomSpec  *)
(* is the engine alone, its methods called on valid parameters.            *)
(***************************************************************************)
EXTENDS Integers, Sequences, FiniteSets, TLC

(***************************************************************************)
(* Bounds of the model.                                                    *)
(***************************************************************************)
\* the largest cabinet counts tried (the defaults 36 and 8 are extra)
MaxWide == 3
MaxHigh == 2
\* a write may fail after k * FailStride lines, k = 0..MaxFailAt
MaxFailAt == 3
FailStride == 5
\* the number of user events (text changes, button presses) of one run
MaxEvents == 2

(***************************************************************************)
(* Program constants: Constants.INPUT_FIELDS defaults and SCALE_FACTOR.    *)
(***************************************************************************)
DefaultCabinetsWide == 36
DefaultCabinetsHigh == 8
DefaultTiltAngle == 5
DefaultCabinetWidth == 500
DefaultCabinetHeight == 500
DefaultTileWidth == 64
DefaultTileHeight == 64
\* SCALE_FACTOR = 0.001 is 1 / ScaleDenominator
ScaleDenominator == 1000

VARIABLES
    inputs,       \* self.inputs: the text of each QLineEdit
    canvas,       \* self.canvas: the figure of the 3D preview
    data_window,  \* self.data_window: the summary text shown
    status_bar,   \* self.status_bar: the message shown
    event,        \* what the last handler or engine call did
    memo,         \* history: one earlier call of calculate_geometry
    nEvents       \* the number of user events so far

vars == <<inputs, canvas, data_window, status_bar, event, memo, nEvents>>

Fields ==
    {"Cabinets Wide", "Cabinets High", "Tilt Angle", "Cabinet Width",
     "Cabinet Height", "Tile Width", "Tile Height"}

(***************************************************************************)
(* Exact arithmetic.                                                       *)
(***************************************************************************)
Abs(n) == IF n < 0 THEN -n ELSE n

\* The element of a one-element set.  The({F(x) : x \in {e}}) is F(e) with
\* e computed once, however often F uses x.
The(S) == CHOOSE x \in S : TRUE

RECURSIVE Gcd(_, _)
Gcd(a, b) == IF b = 0 THEN a ELSE Gcd(b, a % b)

RECURSIVE Pow10(_)
Pow10(k) == IF k = 0 THEN 1 ELSE 10 * Pow10(k - 1)

\* the rational n / d, d # 0, in lowest terms
Rat(n, d) ==
    LET g == Gcd(Abs(n), Abs(d))
        s == IF d < 0 THEN -1 ELSE 1
    IN  [op |-> "rat", n |-> (s * n) \div g, d |-> (s * d) \div g]

\* an integer is in lowest terms over 1
IntRat(n) == [op |-> "rat", n |-> n, d |-> 1]
\* k * a for an integer k
RatScale(k, a) == Rat(k * a.n, a.d)
RatMul(a, b) == Rat(a.n * b.n, a.d * b.d)
RatAdd(a, b) == Rat(a.n * b.d + b.n * a.d, a.d * b.d)
\* a / b for b # 0
RatIsZero(a) == a.n = 0

SCALE_FACTOR == Rat(1, ScaleDenominator)
Infinity == [op |-> "inf"]

(***************************************************************************)
(* Text of a QLineEdit and its conversions int(text), float(text).         *)
(***************************************************************************)
Digits == {"0", "1", "2", "3", "4", "5", "6", "7", "8", "9"}
DigitValue ==
    [c \in Digits |->
        CASE c = "0" -> 0 [] c = "1" -> 1 [] c = "2" -> 2 [] c = "3" -> 3
          [] c = "4" -> 4 [] c = "5" -> 5 [] c = "6" -> 6 [] c = "7" -> 7
          [] c = "8" -> 8 [] c = "9" -> 9]
DigitChar == <<"0", "1", "2", "3", "4", "5", "6", "7", "8", "9">>

RECURSIVE NatText(_)
NatText(n) ==
    IF n < 10 THEN <<DigitChar[n + 1]>>
    ELSE Append(NatText(n \div 10), DigitChar[(n % 10) + 1])

\* str(n): the decimal text of an integer
IntText(n) == IF n < 0 THEN <<"-">> \o NatText(-n) ELSE NatText(n)

AllDigits(s) == \A i \in 1..Len(s) : s[i] \in Digits

RECURSIVE DigitsValue(_)
DigitsValue(s) ==
    IF s = <<>> THEN 0
    ELSE 10 * DigitsValue(SubSeq(s, 1, Len(s) - 1)) + DigitValue[s[Len(s)]]

Unsigned(s) == IF s # <<>> /\ s[1] \in {"-", "+"} THEN Tail(s) ELSE s
Sign(s) == IF s # <<>> /\ s[1] = "-" THEN -1 ELSE 1

\* int(text): an optional sign and at least one digit, else ValueError
ParseInt(s) ==
    LET u == Unsigned(s)
    IN  IF u # <<>> /\ AllDigits(u)
        THEN [exc |-> "none", val |-> Sign(s) * DigitsValue(u)]
        ELSE [exc |-> "ValueError"]

\* float(text): an optional sign, digits with at most one decimal point and
\* at least one digit, else ValueError
ParseFloat(s) ==
    LET u == Unsigned(s)
        dots == {i \in 1..Len(u) : u[i] = "."}
        dot == IF dots = {} THEN Len(u) + 1 ELSE CHOOSE i \in dots : TRUE
        whole == SubSeq(u, 1, dot - 1)
        frac == SubSeq(u, dot + 1, Len(u))
    IN  IF /\ Cardinality(dots) <= 1
           /\ AllDigits(whole) /\ AllDigits(frac)
           /\ Len(whole) + Len(frac) >= 1
        THEN [exc |-> "none",
              val |-> Rat(Sign(s) * DigitsValue(whole \o frac), Pow10(Len(frac)))]
        ELSE [exc |-> "ValueError"]

(***************************************************************************)
(* Format specifications {value:.2f} and {value:.6f}.                      *)
(***************************************************************************)
\* n / d rounded to an integer, ties to the even neighbour
RoundHalfEven(n, d) ==
    LET fl == n \div d
        rem == n - fl * d
    IN  IF 2 * rem < d THEN fl
        ELSE IF 2 * rem > d THEN fl + 1
        ELSE IF fl % 2 = 0 THEN fl ELSE fl + 1

\* the text of v with k decimals: a count of 10^-k units for a rational,
\* "inf" for infinity, the rounding of the term otherwise
Fixed(k, v) ==
    IF v.op = "rat" THEN [op |-> "fixed", digits |-> k,
                          units |-> RoundHalfEven(v.n * Pow10(k), v.d)]
    ELSE IF v.op = "inf" THEN [op |-> "text", text |-> "inf"]
    ELSE [op |-> "fixed_of", digits |-> k, term |-> v]

(***************************************************************************)
(* Angles.  A value in radians is held by its measure in degrees, so       *)
(* math.radians and math.degrees are exact changes of unit.                *)
(***************************************************************************)
Radians(deg) == [op |-> "radians", deg |-> deg]
Degrees(angle) == angle.deg
AngleIsZero(angle) == RatIsZero(angle.deg)
AngleScale(q, angle) == Radians(RatMul(q, angle.deg))
AngleAdd(a, b) == Radians(RatAdd(a.deg, b.deg))

Sin(angle) == [op |-> "sin", angle |-> angle]
NegCos(angle) == [op |-> "neg_cos", angle |-> angle]
OneMinusCos(angle) == [op |-> "one_minus_cos", angle |-> angle]
Mul(a, b) == [op |-> "mul", a |-> a, b |-> b]
\* length / angle for a nonzero angle
DivByAngle(length, angle) == [op |-> "div", a |-> length, b |-> angle]

(***************************************************************************)
(* get_input_params: the seven fields converted, or ValueError.            *)
(***************************************************************************)
get_input_params(texts) ==
    LET cabinets_wide == ParseInt(texts["Cabinets Wide"])
        cabinets_high == ParseInt(texts["Cabinets High"])
        tilt_angle == ParseFloat(texts["Tilt Angle"])
        cabinet_width == ParseInt(texts["Cabinet Width"])
        cabinet_height == ParseInt(texts["Cabinet Height"])
        tile_width == ParseInt(texts["Tile Width"])
        tile_height == ParseInt(texts["Tile Height"])
    IN  IF \/ cabinets_wide.exc # "none" \/ cabinets_high.exc # "none"
           \/ tilt_angle.exc # "none" \/ cabinet_width.exc # "none"
           \/ cabinet_height.exc # "none" \/ tile_width.exc # "none"
           \/ tile_height.exc # "none"
        THEN [exc |-> "ValueError"]
        ELSE [exc |-> "none",
              params |-> [cabinets_wide |-> cabinets_wide.val,
                          cabinets_high |-> cabinets_high.val,
                          tilt_angle |-> tilt_angle.val,
                          cabinet_width |-> cabinet_width.val,
                          cabinet_height |-> cabinet_height.val,
                          tile_width |-> tile_width.val,
                          tile_height |-> tile_height.val]]

(***************************************************************************)
(* A for loop over range(...) is the run of its bodies in iteration order. *)
(* An inner loop is the sequence of its appends, one per iteration; an     *)
(* outer loop splits its range in halves and joins what the halves append, *)
(* in that order, the first exception ending the loop.                     *)
(*                                                                         *)
(* generate_vertex_data: the two nested loops.                             *)
(***************************************************************************)
NoLists == [exc |-> "none", vertices |-> <<>>, normals |-> <<>>, uvs |-> <<>>]

\* the appends of first, then those of rest
ThenLists(first, rest) ==
    IF first.exc # "none" THEN [exc |-> first.exc]
    ELSE IF rest.exc # "none" THEN [exc |-> rest.exc]
    ELSE [exc |-> "none", vertices |-> first.vertices \o rest.vertices,
          normals |-> first.normals \o rest.normals,
          uvs |-> first.uvs \o rest.uvs]

\* lines 233 and 236: what an iteration of the inner loop computes from y
\* alone, vert_y and the UV's v, for y = 0..cabinets_high.  Every column
\* computes the same values, so they are computed here once.
RowValues(cabinets_high, cabinet_height_m) ==
    IF cabinets_high <= 0 THEN <<>>
    ELSE [i \in 1..(cabinets_high + 1) |->
             [vert_y |-> RatScale(i - 1, cabinet_height_m),
              v |-> Rat(i - 1, cabinets_high)]]

\* lines 232-236, the inner loop of column x: for y in range(cabinets_high + 1)
\* the three appends, the last of which divides by both counts, so that the
\* first iteration raises when a count is 0
RowLoop(x, cabinets_wide, cabinets_high, rows, col) ==
    IF cabinets_high + 1 <= 0 THEN NoLists
    ELSE IF cabinets_wide = 0 \/ cabinets_high = 0
    THEN [exc |-> "ZeroDivisionError"]
    ELSE The({[exc |-> "none",
               vertices |-> [i \in 1..(cabinets_high + 1) |->
                                <<col.vert_x, rows[i].vert_y, col.vert_z>>],
               normals |-> [i \in 1..(cabinets_high + 1) |->
                               <<col.normal_x, zero, col.normal_z>>],
               uvs |-> [i \in 1..(cabinets_high + 1) |-> <<u, rows[i].v>>]] :
                u \in {Rat(x, cabinets_wide)}, zero \in {IntRat(0)}})

\* a variant of Column whose flat wall starts one cabinet to the right
ColumnShifted(x, cabinets_wide, cabinet_width_m, radius, start_angle, central_angle, tilt_angle) ==
    IF RatIsZero(tilt_angle)
    THEN [exc |-> "none", vert_x |-> RatScale(x + 1, cabinet_width_m),
          vert_z |-> IntRat(0), normal_x |-> IntRat(0), normal_z |-> IntRat(-1)]
    ELSE IF cabinets_wide = 0 THEN [exc |-> "ZeroDivisionError"]
    ELSE LET angle == AngleAdd(start_angle,
                               AngleScale(Rat(x, cabinets_wide), central_angle))
         IN  [exc |-> "none", vert_x |-> Mul(radius, Sin(angle)),
              vert_z |-> Mul(radius, OneMinusCos(angle)),
              normal_x |-> Sin(angle), normal_z |-> NegCos(angle)]

\* lines 222-230: the x position, depth and normal of column x
Column(x, cabinets_wide, cabinet_width_m, radius, start_angle, central_angle, tilt_angle) ==
    IF RatIsZero(tilt_angle)
    THEN [exc |-> "none", vert_x |-> RatScale(x, cabinet_width_m),
          vert_z |-> IntRat(0), normal_x |-> IntRat(0), normal_z |-> IntRat(-1)]
    ELSE IF cabinets_wide = 0 THEN [exc |-> "ZeroDivisionError"]
    ELSE LET angle == AngleAdd(start_angle,
                               AngleScale(Rat(x, cabinets_wide), central_angle))
         IN  [exc |-> "none", vert_x |-> Mul(radius, Sin(angle)),
              vert_z |-> Mul(radius, OneMinusCos(angle)),
              normal_x |-> Sin(angle), normal_z |-> NegCos(angle)]

\* lines 222-236, the body of the outer loop for one x
ColumnBody(x, cabinets_wide, cabinets_high, cabinet_width_m, rows, radius, start_angle, central_angle, tilt_angle) ==
    The({IF col.exc # "none" THEN [exc |-> col.exc]
         ELSE RowLoop(x, cabinets_wide, cabinets_high, rows, col) :
           col \in {Column(x, cabinets_wide, cabinet_width_m, radius,
                           start_angle, central_angle, tilt_angle)}})

RECURSIVE ColumnLoop(_, _, _, _, _, _, _, _, _, _)
\* for x in range(cabinets_wide + 1), the iterations lo..hi
ColumnLoop(lo, hi, cabinets_wide, cabinets_high, cabinet_width_m, rows, radius, start_angle, central_angle, tilt_angle) ==
    IF lo > hi THEN NoLists
    ELSE IF lo = hi
    THEN ColumnBody(lo, cabinets_wide, cabinets_high, cabinet_width_m, rows,
                    radius, start_angle, central_angle, tilt_angle)
    ELSE LET mid == (lo + hi) \div 2
         IN  The({ThenLists(first, rest) :
                    first \in {ColumnLoop(lo, mid, cabinets_wide, cabinets_high,
                                          cabinet_width_m, rows, radius,
                                          start_angle, central_angle, tilt_angle)},
                    rest \in {ColumnLoop(mid + 1, hi, cabinets_wide,
                                         cabinets_high, cabinet_width_m, rows,
                                         radius, start_angle, central_angle,
                                         tilt_angle)}})

\* a variant of generate_vertex_data whose three lists live on the object:
\* once a user event has run, a call appends to the lists of the last preview
generate_vertex_data_kept(cabinets_wide, cabinets_high, cabinet_width_m, cabinet_height_m, radius, start_angle, central_angle, tilt_angle) ==
    The({IF nEvents = 0 \/ data.exc # "none" THEN data
         ELSE IF canvas.state # "plotted" THEN data
         ELSE [data EXCEPT !.vertices = canvas.vertices \o @] :
           data \in {The({ColumnLoop(0, cabinets_wide, cabinets_wide,
                                     cabinets_high, cabinet_width_m, rows, radius,
                                     start_angle, central_angle, tilt_angle) :
                            rows \in {RowValues(cabinets_high, cabinet_height_m)}})}})

generate_vertex_data(cabinets_wide, cabinets_high, cabinet_width_m, cabinet_height_m, radius, start_angle, central_angle, tilt_angle) ==
    The({ColumnLoop(0, cabinets_wide, cabinets_wide, cabinets_high,
                    cabinet_width_m, rows, radius, start_angle, central_angle,
                    tilt_angle) :
           rows \in {RowValues(cabinets_high, cabinet_height_m)}})

(***************************************************************************)
(* generate_faces: one quad per cabinet, 0-based corner indices.           *)
(***************************************************************************)
\* a variant of Quad that walks the corners the other way round
QuadReversed(x, y, cabinets_high) ==
    <<(x - 1) * (cabinets_high + 1) + y,
      (x - 1) * (cabinets_high + 1) + y + 1,
      x * (cabinets_high + 1) + y + 1,
      x * (cabinets_high + 1) + y>>

\* lines 244-248: the quad of column x, row y
Quad(x, y, cabinets_high) ==
    <<(x - 1) * (cabinets_high + 1) + y,
      x * (cabinets_high + 1) + y,
      x * (cabinets_high + 1) + y + 1,
      (x - 1) * (cabinets_high + 1) + y + 1>>

\* a variant of FaceRowLoop that runs over range(cabinets_high + 1)
FaceRowLoopInclusive(x, cabinets_high) ==
    IF cabinets_high + 1 <= 0 THEN <<>>
    ELSE [i \in 1..(cabinets_high + 1) |->
             <<(x - 1) * (cabinets_high + 1) + i - 1,
               x * (cabinets_high + 1) + i - 1,
               x * (cabinets_high + 1) + i,
               (x - 1) * (cabinets_high + 1) + i>>]

\* lines 243-248, the inner loop of column x: for y in range(cabinets_high)
FaceRowLoop(x, cabinets_high) ==
    IF cabinets_high <= 0 THEN <<>>
    ELSE [i \in 1..cabinets_high |-> Quad(x, i - 1, cabinets_high)]

RECURSIVE FaceColumnLoop(_, _, _)
\* for x in range(1, cabinets_wide + 1), the iterations lo..hi
FaceColumnLoop(lo, hi, cabinets_high) ==
    IF lo > hi THEN <<>>
    ELSE IF lo = hi THEN FaceRowLoop(lo, cabinets_high)
    ELSE LET mid == (lo + hi) \div 2
         IN  FaceColumnLoop(lo, mid, cabinets_high)
                 \o FaceColumnLoop(mid + 1, hi, cabinets_high)

generate_faces(cabinets_wide, cabinets_high) ==
    FaceColumnLoop(1, cabinets_wide, cabinets_high)

(***************************************************************************)
(* print_debug_info: the four lines printed to stdout.                     *)
(***************************************************************************)
print_debug_info(radius, arc_length, chord_length, central_angle) ==
    <<[label |-> "Radius", value |-> Fixed(2, radius)],
      [label |-> "Arc Length (Total Cabinet Width)", value |-> Fixed(2, arc_length)],
      [label |-> "Chord Length (Straight-line Distance)",
       value |-> Fixed(2, chord_length)],
      [label |-> "Central Angle", value |-> Fixed(2, Degrees(central_angle))]>>

(***************************************************************************)
(* calculate_geometry: the curve, then the mesh.  The result carries the   *)
(* returned tuple (vertices, faces, normals, uvs), the locals of the curve *)
(* and the lines printed, or the exception raised.                         *)
(***************************************************************************)
\* lines 196-207: arc, radius, angles and chord
Curve(cabinets_wide, cabinet_width_m, tilt_angle) ==
    LET arc_length == RatScale(cabinets_wide, cabinet_width_m)
    IN  IF RatIsZero(tilt_angle)
        THEN [exc |-> "none", arc_length |-> arc_length, radius |-> Infinity,
              start_angle |-> Radians(IntRat(0)),
              central_angle |-> Radians(IntRat(0)),
              chord_length |-> arc_length]
        ELSE LET central_angle ==
                     Radians(RatMul(tilt_angle, IntRat(cabinets_wide - 1)))
                 radius == DivByAngle(arc_length, central_angle)
             IN  IF AngleIsZero(central_angle)
                 THEN [exc |-> "ZeroDivisionError"]
                 ELSE [exc |-> "none", arc_length |-> arc_length,
                       radius |-> radius,
                       start_angle |-> AngleScale(Rat(-1, 2), central_angle),
                       central_angle |-> central_angle,
                       chord_length |->
                           Mul(IntRat(2),
                               Mul(radius,
                                   Sin(AngleScale(Rat(1, 2), central_angle))))]

\* lines 209-216: the mesh of a curve, the debug lines and the return
Mesh(p, cabinet_width_m, cabinet_height_m, curve) ==
    The({IF data.exc # "none"
         THEN [exc |-> data.exc,
               calls |-> <<"calculate_geometry", "generate_vertex_data">>]
         ELSE [exc |-> "none",
               calls |-> <<"calculate_geometry", "generate_vertex_data",
                           "generate_faces", "print_debug_info">>,
               vertices |-> data.vertices,
               faces |-> generate_faces(p.cabinets_wide, p.cabinets_high),
               normals |-> data.normals,
               uvs |-> data.uvs,
               curve |-> curve,
               printed |-> print_debug_info(curve.radius, curve.arc_length,
                                            curve.chord_length,
                                            curve.central_angle)] :
           data \in {generate_vertex_data(p.cabinets_wide, p.cabinets_high,
                                          cabinet_width_m, cabinet_height_m,
                                          curve.radius, curve.start_angle,
                                          curve.central_angle, p.tilt_angle)}})

calculate_geometry(p) ==
    LET cabinet_width_m == RatMul(IntRat(p.cabinet_width), SCALE_FACTOR)
        cabinet_height_m == RatMul(IntRat(p.cabinet_height), SCALE_FACTOR)
    IN  The({IF curve.exc # "none"
             THEN [exc |-> curve.exc, calls |-> <<"calculate_geometry">>]
             ELSE Mesh(p, cabinet_width_m, cabinet_height_m, curve) :
               curve \in {Curve(p.cabinets_wide, cabinet_width_m, p.tilt_angle)}})

(***************************************************************************)
(* save_obj: the lines written to the file, in the order of the writes.    *)
(***************************************************************************)
HeaderLine == [tag |-> "#", text |-> "OBJ file"]
VLine(v) == [tag |-> "v", fields |-> <<Fixed(6, v[1]), Fixed(6, v[2]), Fixed(6, v[3])>>]
VtLine(vt) == [tag |-> "vt", fields |-> <<Fixed(6, vt[1]), Fixed(6, vt[2])>>]
VnLine(vn) == [tag |-> "vn", fields |-> <<Fixed(6, vn[1]), Fixed(6, vn[2]), Fixed(6, vn[3])>>]
\* a variant of Corner that writes the 0-based index
CornerZeroBased(i) == <<i, i, i>>
\* one corner of an 'f' line: position / texture / normal index
Corner(i) == <<i + 1, i + 1, i + 1>>
FLine(face) ==
    [tag |-> "f",
     corners |-> <<Corner(face[1]), Corner(face[2]), Corner(face[3]), Corner(face[4])>>]

\* a variant of SaveObjLines that writes the normals before the UVs
SaveObjLinesNormalsFirst(vertices, faces, normals, uvs) ==
    <<HeaderLine>>
        \o [i \in 1..Len(vertices) |-> VLine(vertices[i])]
        \o [i \in 1..Len(normals) |-> VnLine(normals[i])]
        \o [i \in 1..Len(uvs) |-> VtLine(uvs[i])]
        \o [i \in 1..Len(faces) |-> FLine(faces[i])]

SaveObjLines(vertices, faces, normals, uvs) ==
    <<HeaderLine>>
        \o [i \in 1..Len(vertices) |-> VLine(vertices[i])]
        \o [i \in 1..Len(uvs) |-> VtLine(uvs[i])]
        \o [i \in 1..Len(normals) |-> VnLine(normals[i])]
        \o [i \in 1..Len(faces) |-> FLine(faces[i])]

NoFile == [opened |-> FALSE, complete |-> FALSE, lines |-> <<>>]
Min(a, b) == IF a < b THEN a ELSE b

\* The environment of a write is io: kind "ok"; kind "open" (open() raises
\* IOError and no file is made); or kind "write" (IOError is raised from a
\* write or from the close, when at most io.after lines have reached the
\* file).
save_obj(io, vertices, faces, normals, uvs) ==
    The({IF io.kind = "open" THEN [exc |-> "IOError", file |-> NoFile]
         ELSE IF io.kind = "ok"
         THEN [exc |-> "none",
               file |-> [opened |-> TRUE, complete |-> TRUE, lines |-> lines]]
         ELSE [exc |-> "IOError",
               file |-> [opened |-> TRUE, complete |-> FALSE,
                         lines |-> SubSeq(lines, 1, Min(io.after, Len(lines)))]] :
           lines \in {SaveObjLines(vertices, faces, normals, uvs)}})

WriteOutcomes ==
    {[kind |-> "ok", after |-> 0], [kind |-> "open", after |-> 0]}
        \cup {[kind |-> "write", after |-> k * FailStride] : k \in 0..MaxFailAt}

(***************************************************************************)
(* update_data_window: the summary text, or the exception raised.          *)
(***************************************************************************)
update_data_window(params) ==
    LET total_width_mm == params.cabinets_wide * params.cabinet_width
        total_height_mm == params.cabinets_high * params.cabinet_height
        total_pixels_width == params.cabinets_wide * params.tile_width
        total_pixels_height == params.cabinets_high * params.tile_height
        total_cabinets == params.cabinets_wide * params.cabinets_high
        total_pixels == total_pixels_width * total_pixels_height
        arc_length_m == Rat(total_width_mm, 1000)
        central_angle ==
            Radians(RatMul(params.tilt_angle, IntRat(params.cabinets_wide - 1)))
        radius == DivByAngle(arc_length_m, central_angle)
        chord_length_m ==
            IF RatIsZero(params.tilt_angle) THEN arc_length_m
            ELSE Mul(IntRat(2),
                     Mul(radius, Sin(AngleScale(Rat(1, 2), central_angle))))
    IN  IF ~RatIsZero(params.tilt_angle) /\ AngleIsZero(central_angle)
        THEN [exc |-> "ZeroDivisionError"]
        ELSE IF total_height_mm = 0 THEN [exc |-> "ZeroDivisionError"]
        ELSE [exc |-> "none",
              info |-> [arc_length |-> Fixed(2, arc_length_m),
                        chord_length |-> Fixed(2, chord_length_m),
                        height |-> Fixed(2, Rat(total_height_mm, 1000)),
                        resolution |-> <<total_pixels_width, total_pixels_height>>,
                        total_cabinets |-> total_cabinets,
                        total_pixels |-> total_pixels,
                        aspect_ratio |->
                            Fixed(2, Rat(total_width_mm, total_height_mm))]]

(***************************************************************************)
(* create_test_image: the bitmap's size and its cabinet cells.             *)
(***************************************************************************)
create_test_image(params) ==
    LET total_width == params.cabinets_wide * params.tile_width
        total_height == params.cabinets_high * params.tile_height
    IN  IF total_width < 0 \/ total_height < 0
        THEN [exc |-> "ValueError"]       \* Image.new refuses a negative size
        ELSE [exc |-> "none",
              image |-> [size |-> <<total_width, total_height>>,
                         cells |-> {[x |-> x, y |-> y,
                                     left |-> x * params.tile_width,
                                     top |-> y * params.tile_height,
                                     filled |-> (x + y) % 2 = 0] :
                                    x \in 0..(params.cabinets_wide - 1),
                                    y \in 0..(params.cabinets_high - 1)}]]

(***************************************************************************)
(* plot_3d_preview: clear the figure, reshape the vertices into a          *)
(* (cabinets_wide + 1) x (cabinets_high + 1) grid and plot it.             *)
(***************************************************************************)
ClearedCanvas == [state |-> "cleared"]

plot_3d_preview(vertices, texts) ==
    LET cabinets_wide == ParseInt(texts["Cabinets Wide"]).val
        cabinets_high == ParseInt(texts["Cabinets High"]).val
    IN  IF vertices = <<>>
        THEN \* np.array([]) has one axis: vertices[:, 0] raises IndexError
             [exc |-> "IndexError", canvas |-> ClearedCanvas]
        ELSE [exc |-> "none",
              canvas |-> [state |-> "plotted",
                          shape |-> <<cabinets_wide + 1, cabinets_high + 1>>,
                          vertices |-> vertices]]

(***************************************************************************)
(* The handlers.  Each gives the widgets' new contents and a record of     *)
(* what it did: the methods it called in order, the geometry it computed,  *)
(* the message boxes and save dialogs it showed, what became of the write, *)
(* the file it left and the exception that left the handler.               *)
(***************************************************************************)
NotCalled == [exc |-> "not_called"]
INPUT_ERROR ==
    [title |-> "Input Error",
     message |-> "Please enter valid numeric values for all fields."]
FILE_ERROR ==
    [title |-> "File Error",
     message |-> "An error occurred while saving the file."]

\* show_error_message: the status text it leaves
ErrorStatus(box) == [text |-> "Error: ", message |-> box.message]
Status(text) == [text |-> text, message |-> ""]

Did(handler) ==
    [handler |-> handler, calls |-> <<"get_input_params">>,
     geometry |-> NotCalled, boxes |-> <<>>, save_dialogs |-> 0,
     write |-> "not_tried", file |-> NoFile, raised |-> "none"]

update_preview(texts, canvas0, data0) ==
    LET did == Did("update_preview")
        \* lines 105-106
        Show(params, geo) ==
            The({IF plot.exc # "none"
                 THEN [canvas |-> plot.canvas, data_window |-> data0,
                       did |-> [did EXCEPT
                                  !.calls = @ \o geo.calls \o <<"plot_3d_preview">>,
                                  !.geometry = geo, !.raised = plot.exc]]
                 ELSE [canvas |-> plot.canvas,
                       data_window |-> IF text.exc = "none" THEN text.info
                                       ELSE data0,
                       did |-> [did EXCEPT
                                  !.calls = @ \o geo.calls
                                      \o <<"plot_3d_preview", "update_data_window">>,
                                  !.geometry = geo, !.raised = text.exc]] :
                   plot \in {plot_3d_preview(geo.vertices, texts)},
                   text \in {update_data_window(params)}})
        \* line 104
        Compute(params) ==
            The({IF geo.exc # "none"
                 THEN [canvas |-> canvas0, data_window |-> data0,
                       did |-> [did EXCEPT !.calls = @ \o geo.calls,
                                           !.geometry = geo, !.raised = geo.exc]]
                 ELSE Show(params, geo) :
                   geo \in {calculate_geometry(params)}})
    IN  The({IF got.exc # "none"
             THEN \* except ValueError: pass
                  [canvas |-> canvas0, data_window |-> data0, did |-> did]
             ELSE Compute(got.params) :
               got \in {get_input_params(texts)}})

\* save_obj_file: chosen says whether the user picked a file name
save_obj_file(chosen, io, geo, did) ==
    LET shown == [did EXCEPT !.calls = @ \o <<"save_obj_file">>,
                             !.save_dialogs = @ + 1]
    IN  IF ~chosen
        THEN [exc |-> "none", status |-> Status("OBJ file generation cancelled."),
              did |-> shown]
        ELSE The({[exc |-> saved.exc,
                   status |-> Status("OBJ file generated successfully!"),
                   did |-> [shown EXCEPT !.calls = @ \o <<"save_obj">>,
                                         !.write = IF saved.exc = "none" THEN "ok"
                                                   ELSE saved.exc,
                                         !.file = saved.file]] :
                    saved \in {save_obj(io, geo.vertices, geo.faces, geo.normals,
                                        geo.uvs)}})

generate_obj(texts, status0, chosen, io) ==
    LET did == Did("generate_obj")
        \* line 174 and the handlers of lines 177-178
        Save(geo) ==
            The({IF saved.exc = "IOError"
                 THEN [status_bar |-> ErrorStatus(FILE_ERROR),
                       did |-> [saved.did EXCEPT !.boxes = <<FILE_ERROR>>]]
                 ELSE [status_bar |-> saved.status, did |-> saved.did] :
                   saved \in {save_obj_file(chosen, io, geo,
                                            [did EXCEPT !.calls = @ \o geo.calls,
                                                        !.geometry = geo])}})
        \* line 173
        Compute(params) ==
            The({IF geo.exc # "none"
                 THEN [status_bar |-> status0,
                       did |-> [did EXCEPT !.calls = @ \o geo.calls,
                                           !.geometry = geo, !.raised = geo.exc]]
                 ELSE Save(geo) :
                   geo \in {calculate_geometry(params)}})
    IN  The({IF got.exc = "ValueError"
             THEN [status_bar |-> ErrorStatus(INPUT_ERROR),
                   did |-> [did EXCEPT !.boxes = <<INPUT_ERROR>>]]
             ELSE Compute(got.params) :
               got \in {get_input_params(texts)}})

\* image.save(filename), as PIL documents it: "ok", "IOError" (the file could
\* not be written) or "ValueError" (the output format could not be determined
\* from the file name, as for a name typed without an extension)
ImageSaveOutcomes == {"ok", "IOError", "ValueError"}

generate_test_image(texts, status0, chosen, outcome) ==
    LET did == Did("generate_test_image")
        drawn == [did EXCEPT !.calls = @ \o <<"create_test_image">>]
        shown == [drawn EXCEPT !.save_dialogs = @ + 1]
        wrote == [shown EXCEPT !.calls = @ \o <<"image.save">>,
                               !.write = outcome]
        \* lines 319-325 and the handlers of lines 326-329
        Draw(params) ==
            The({IF made.exc = "ValueError"
                 THEN [status_bar |-> ErrorStatus(INPUT_ERROR),
                       did |-> [drawn EXCEPT !.boxes = <<INPUT_ERROR>>]]
                 ELSE IF ~chosen
                 THEN [status_bar |-> Status("Test image generation cancelled."),
                       did |-> shown]
                 ELSE IF outcome = "ValueError"
                 THEN [status_bar |-> ErrorStatus(INPUT_ERROR),
                       did |-> [wrote EXCEPT !.boxes = <<INPUT_ERROR>>]]
                 ELSE IF outcome = "IOError"
                 THEN [status_bar |-> ErrorStatus(FILE_ERROR),
                       did |-> [wrote EXCEPT !.boxes = <<FILE_ERROR>>]]
                 ELSE [status_bar |-> Status("Test image generated successfully!"),
                       did |-> [wrote EXCEPT
                                  !.file = [opened |-> TRUE, complete |-> TRUE,
                                            lines |-> <<made.image>>]]] :
                   made \in {create_test_image(params)}})
    IN  The({IF got.exc = "ValueError"
             THEN [status_bar |-> ErrorStatus(INPUT_ERROR),
                   did |-> [did EXCEPT !.boxes = <<INPUT_ERROR>>]]
             ELSE Draw(got.params) :
               got \in {get_input_params(texts)}})

(***************************************************************************)
(* The window: construction, text changes and the two buttons.             *)
(***************************************************************************)
Texts(wide, high, tilt, width, height, tile_w, tile_h) ==
    [f \in Fields |->
        CASE f = "Cabinets Wide" -> wide
          [] f = "Cabinets High" -> high
          [] f = "Tilt Angle" -> tilt
          [] f = "Cabinet Width" -> width
          [] f = "Cabinet Height" -> height
          [] f = "Tile Width" -> tile_w
          [] f = "Tile Height" -> tile_h]

\* Constants.INPUT_FIELDS: the text each QLineEdit is made with
INPUT_FIELDS ==
    Texts(IntText(DefaultCabinetsWide), IntText(DefaultCabinetsHigh),
          IntText(DefaultTiltAngle), IntText(DefaultCabinetWidth),
          IntText(DefaultCabinetHeight), IntText(DefaultTileWidth),
          IntText(DefaultTileHeight))

\* MatplotlibCanvas.__init__: an empty 3D axes; QTextEdit(): no text
EmptyCanvas == [state |-> "empty"]
EmptyText == [text |-> ""]

\* what the user types into each field
Typed ==
    [f \in Fields |->
        CASE f = "Cabinets Wide" ->
                 {INPUT_FIELDS[f], <<"a", "b", "c">>, IntText(-1), IntText(0)}
                     \cup {IntText(n) : n \in 1..MaxWide}
          [] f = "Cabinets High" -> {INPUT_FIELDS[f], IntText(0), IntText(1)}
          [] f = "Tilt Angle" -> {INPUT_FIELDS[f], IntText(0)}
          [] f = "Cabinet Width" -> {INPUT_FIELDS[f]}
          [] f = "Cabinet Height" -> {INPUT_FIELDS[f], IntText(0)}
          [] f = "Tile Width" -> {INPUT_FIELDS[f], IntText(0)}
          [] f = "Tile Height" -> {INPUT_FIELDS[f], <<>>}]

NoMemo == [set |-> FALSE]
\* the tuple a call of calculate_geometry returns, or its exception
Returned(geo) ==
    IF geo.exc # "none" THEN [exc |-> geo.exc]
    ELSE [exc |-> "none", vertices |-> geo.vertices, faces |-> geo.faces,
          normals |-> geo.normals, uvs |-> geo.uvs]

\* The memo after a handler that read texts.  It is taken from one call of
\* calculate_geometry, then kept; it counts the handlers that ran since and
\* tells whether one of them ran on other texts.
MemoAfter(m, texts, did) ==
    IF m.set
    THEN {[m EXCEPT !.runs = @ + 1, !.others = @ \/ texts # m.texts]}
    ELSE IF did.geometry.exc = "not_called" THEN {m}
    ELSE {m, [set |-> TRUE, texts |-> texts,
              params |-> get_input_params(texts).params,
              result |-> Returned(did.geometry), runs |-> 0, others |-> FALSE]}

\* __init__: the fields get their defaults, then update_preview runs once
Init ==
    /\ nEvents = 0
    /\ \E first \in {update_preview(INPUT_FIELDS, EmptyCanvas, EmptyText)} :
        /\ inputs = INPUT_FIELDS
        /\ status_bar = Status("")
        /\ canvas = first.canvas
        /\ data_window = first.data_window
        /\ event = first.did
        /\ memo \in MemoAfter(NoMemo, INPUT_FIELDS, first.did)

\* textChanged of one field: update_preview on the new texts
TextChanged(field, text) ==
    /\ nEvents < MaxEvents
    /\ text # inputs[field]
    /\ \E done \in {update_preview([inputs EXCEPT ![field] = text], canvas,
                                   data_window)} :
           /\ nEvents' = nEvents + 1
           /\ inputs' = [inputs EXCEPT ![field] = text]
           /\ canvas' = done.canvas
           /\ data_window' = done.data_window
           /\ event' = done.did
           /\ memo' \in MemoAfter(memo, [inputs EXCEPT ![field] = text], done.did)
           /\ UNCHANGED status_bar

\* the 'Generate OBJ' button
GenerateObj(chosen, io) ==
    /\ nEvents < MaxEvents
    /\ \E done \in {generate_obj(inputs, status_bar, chosen, io)} :
           /\ nEvents' = nEvents + 1
           /\ status_bar' = done.status_bar
           /\ event' = done.did
           /\ memo' \in MemoAfter(memo, inputs, done.did)
           /\ UNCHANGED <<inputs, canvas, data_window>>

\* the 'Generate Test Image' button
GenerateTestImage(chosen, outcome) ==
    /\ nEvents < MaxEvents
    /\ \E done \in {generate_test_image(inputs, status_bar, chosen, outcome)} :
           /\ nEvents' = nEvents + 1
           /\ status_bar' = done.status_bar
           /\ event' = done.did
           /\ memo' \in MemoAfter(memo, inputs, done.did)
           /\ UNCHANGED <<inputs, canvas, data_window>>

\* the user cancels the save dialog, or picks a name and the write goes on
ObjEnvironments ==
    {<<FALSE, [kind |-> "ok", after |-> 0]>>} \cup {<<TRUE, io>> : io \in WriteOutcomes}
ImageEnvironments ==
    {<<FALSE, "ok">>} \cup {<<TRUE, outcome>> : outcome \in ImageSaveOutcomes}

Next ==
    \/ \E field \in Fields : \E text \in Typed[field] : TextChanged(field, text)
    \/ \E env \in ObjEnvironments : GenerateObj(env[1], env[2])
    \/ \E env \in ImageEnvironments : GenerateTestImage(env[1], env[2])

Spec == Init /\ [][Next]_vars

(***************************************************************************)
(* The engine on its own: the fields hold valid numbers and the methods    *)
(* are called directly, calculate_geometry and then save_obj on what it    *)
(* returned, or update_data_window.                                        *)
(***************************************************************************)
EngineInputs ==
    {Texts(IntText(wide), IntText(high), tilt, IntText(width),
           INPUT_FIELDS["Cabinet Height"], INPUT_FIELDS["Tile Width"],
           INPUT_FIELDS["Tile Height"]) :
        wide \in 1..MaxWide, high \in 1..MaxHigh,
        tilt \in {IntText(0), IntText(DefaultTiltAngle), <<"-", "2", ".", "5">>},
        width \in {DefaultCabinetWidth, DefaultCabinetWidth \div 2}}

\* the parameters the fields hold
Params == get_input_params(inputs).params

GeomInit ==
    /\ nEvents = 0
    /\ inputs \in EngineInputs
    /\ canvas = EmptyCanvas
    /\ data_window = EmptyText
    /\ status_bar = Status("")
    /\ event = [Did("none") EXCEPT !.calls = <<>>]
    /\ memo = NoMemo

CalculateGeometry ==
    /\ event.handler = "none"
    /\ \E geo \in {calculate_geometry(Params)} :
           event' = [Did("calculate_geometry") EXCEPT
                       !.calls = geo.calls, !.geometry = geo, !.raised = geo.exc]
    /\ nEvents' = nEvents + 1
    /\ UNCHANGED <<inputs, canvas, data_window, status_bar, memo>>

SaveObj(io) ==
    /\ event.handler = "calculate_geometry"
    /\ event.geometry.exc = "none"
    /\ \E saved \in {save_obj(io, event.geometry.vertices, event.geometry.faces,
                              event.geometry.normals, event.geometry.uvs)} :
           event' = [event EXCEPT
                       !.handler = "save_obj", !.calls = @ \o <<"save_obj">>,
                       !.write = IF saved.exc = "none" THEN "ok" ELSE saved.exc,
                       !.file = saved.file, !.raised = saved.exc]
    /\ nEvents' = nEvents + 1
    /\ UNCHANGED <<inputs, canvas, data_window, status_bar, memo>>

UpdateDataWindow ==
    /\ event.handler = "none"
    /\ \E text \in {update_data_window(Params)} :
           /\ data_window' = IF text.exc = "none" THEN text.info ELSE data_window
           /\ event' = [Did("update_data_window") EXCEPT
                          !.calls = <<"update_data_window">>, !.raised = text.exc]
    /\ nEvents' = nEvents + 1
    /\ UNCHANGED <<inputs, canvas, status_bar, memo>>

GeomNext ==
    \/ CalculateGeometry
    \/ \E io \in WriteOutcomes : SaveObj(io)
    \/ UpdateDataWindow

GeomSpec == GeomInit /\ [][GeomNext]_vars

(***************************************************************************)
(* Properties of the engine, under GeomSpec.                               *)
(***************************************************************************)
\* a call of calculate_geometry has returned; Geometry is what it returned
Generated == event.geometry.exc = "none"
Geometry == event.geometry
\* the number of grid points of the wall in the fields
GridSize == (Params.cabinets_wide + 1) * (Params.cabinets_high + 1)
\* the list position (0-based) of column x, row y
Index(x, y) == x * (Params.cabinets_high + 1) + y
WidthM == RatMul(IntRat(Params.cabinet_width), SCALE_FACTOR)
HeightM == RatMul(IntRat(Params.cabinet_height), SCALE_FACTOR)

\* C1: for cabinets_wide >= 1 and cabinets_high >= 1, whenever
\* calculate_geometry returns, vertices, normals and uvs each have
\* (cabinets_wide+1)*(cabinets_high+1) entries and faces has
\* cabinets_wide*cabinets_high entries of 4 indices each.
GridCardinality ==
    (Generated /\ Params.cabinets_wide >= 1 /\ Params.cabinets_high >= 1) =>
        /\ Len(Geometry.vertices) = GridSize
        /\ Len(Geometry.normals) = GridSize
        /\ Len(Geometry.uvs) = GridSize
        /\ Len(Geometry.faces) = Params.cabinets_wide * Params.cabinets_high
        /\ \A i \in 1..Len(Geometry.faces) : Len(Geometry.faces[i]) = 4

\* a curved wall of more than one cabinet each way has been generated
GridCardinalityWitness ==
    /\ event.handler = "calculate_geometry"
    /\ Generated
    /\ Params.cabinets_wide >= 2
    /\ Params.cabinets_high >= 2
    /\ ~RatIsZero(Params.tilt_angle)
    /\ Len(Geometry.vertices) = GridSize
    /\ Len(Geometry.faces) = Params.cabinets_wide * Params.cabinets_high

\* C2: for cabinets_wide >= 1 and cabinets_high >= 1, every index written on
\* an 'f' line lies in 1..(cabinets_wide+1)*(cabinets_high+1), and every
\* index of every face of generate_faces is a valid 0-based index into the
\* vertices, uvs and normals of generate_vertex_data.
FaceIndicesInRange ==
    (Generated /\ Params.cabinets_wide >= 1 /\ Params.cabinets_high >= 1) =>
        /\ \A i \in 1..Len(Geometry.faces) :
             \A k \in 1..Len(Geometry.faces[i]) :
                /\ Geometry.faces[i][k] \in 0..(Len(Geometry.vertices) - 1)
                /\ Geometry.faces[i][k] \in 0..(Len(Geometry.uvs) - 1)
                /\ Geometry.faces[i][k] \in 0..(Len(Geometry.normals) - 1)
        /\ \A j \in 1..Len(event.file.lines) :
             event.file.lines[j].tag = "f" =>
                \A k \in 1..Len(event.file.lines[j].corners) :
                   \A m \in 1..3 :
                      event.file.lines[j].corners[k][m] \in 1..GridSize

\* a complete file has been written whose 'f' lines carry both the lowest
\* index, 1, and the highest, the number of vertices
FaceIndicesWitness ==
    /\ event.handler = "save_obj"
    /\ event.file.complete
    /\ Params.cabinets_wide >= 2
    /\ \E j \in 1..Len(event.file.lines) :
         /\ event.file.lines[j].tag = "f"
         /\ event.file.lines[j].corners[1][1] = 1
    /\ \E j \in 1..Len(event.file.lines) :
         /\ event.file.lines[j].tag = "f"
         /\ event.file.lines[j].corners[3][1] = GridSize

\* C3: with index(x,y) = x*(cabinets_high+1) + y, the vertex, normal and UV at
\* list position index(x,y) are those of column x and row y, and
\* generate_faces emits, for x = 1..cabinets_wide (outer) and
\* y = 0..cabinets_high-1 (inner), exactly one quad with the corners index(x-1,y),
\* index(x,y), index(x,y+1), index(x-1,y+1) in this order, no two faces
\* covering the same cell.
ColumnMajorOrder ==
    (Generated /\ Params.cabinets_wide >= 1 /\ Params.cabinets_high >= 1) =>
        /\ Len(Geometry.vertices) = GridSize
        /\ \A x \in 0..Params.cabinets_wide :
             LET col == Column(x, Params.cabinets_wide, WidthM,
                               Geometry.curve.radius, Geometry.curve.start_angle,
                               Geometry.curve.central_angle, Params.tilt_angle)
             IN  \A y \in 0..Params.cabinets_high :
                    /\ Geometry.vertices[Index(x, y) + 1] =
                           <<col.vert_x, RatScale(y, HeightM), col.vert_z>>
                    /\ Geometry.normals[Index(x, y) + 1] =
                           <<col.normal_x, IntRat(0), col.normal_z>>
                    /\ Geometry.uvs[Index(x, y) + 1] =
                           <<Rat(x, Params.cabinets_wide),
                             Rat(y, Params.cabinets_high)>>
        /\ Len(Geometry.faces) = Params.cabinets_wide * Params.cabinets_high
        /\ \A x \in 1..Params.cabinets_wide :
             \A y \in 0..(Params.cabinets_high - 1) :
                Geometry.faces[(x - 1) * Params.cabinets_high + y + 1] =
                    <<Index(x - 1, y), Index(x, y), Index(x, y + 1),
                      Index(x - 1, y + 1)>>
        /\ \A i, j \in 1..Len(Geometry.faces) :
             i # j => Geometry.faces[i] # Geometry.faces[j]

\* a curved wall with a second column and a second row of cabinets: the last
\* face is the quad of the last cell
ColumnMajorWitness ==
    /\ event.handler = "calculate_geometry"
    /\ Generated
    /\ Params.cabinets_wide >= 2
    /\ Params.cabinets_high >= 2
    /\ ~RatIsZero(Params.tilt_angle)
    /\ Geometry.faces[Len(Geometry.faces)] =
           <<Index(Params.cabinets_wide - 1, Params.cabinets_high - 1),
             Index(Params.cabinets_wide, Params.cabinets_high - 1),
             Index(Params.cabinets_wide, Params.cabinets_high),
             Index(Params.cabinets_wide - 1, Params.cabinets_high)>>

\* the rank of a line's section in an OBJ file
SectionRank(line) ==
    CASE line.tag = "#" -> 0
      [] line.tag = "v" -> 1
      [] line.tag = "vt" -> 2
      [] line.tag = "vn" -> 3
      [] line.tag = "f" -> 4

\* C4: the lines save_obj writes are one comment header line first, then the
\* 'v' lines (one per vertex, in list order), then the 'vt' lines (one per UV),
\* then the 'vn' lines (one per normal), then the 'f' lines (one per face); no
\* line of a later section is written before a line of an earlier one, and
\* each 'f' line carries four corner triples i/i/i with i the face's 0-based
\* index plus 1.  The lines of a write that failed are a prefix of the same
\* order.
ObjLineOrder ==
    event.handler = "save_obj" =>
        LET lines == event.file.lines
            nv == Len(Geometry.vertices)
            nt == Len(Geometry.uvs)
            nn == Len(Geometry.normals)
            nf == Len(Geometry.faces)
        IN  /\ \A i \in 1..Len(lines) : (lines[i].tag = "#") <=> (i = 1)
            /\ \A i, j \in 1..Len(lines) :
                 i < j => SectionRank(lines[i]) <= SectionRank(lines[j])
            /\ Len(lines) <= 1 + nv + nt + nn + nf
            /\ event.file.complete => Len(lines) = 1 + nv + nt + nn + nf
            /\ \A i \in 1..Len(lines) :
                 /\ (1 < i /\ i <= 1 + nv) =>
                        lines[i] = VLine(Geometry.vertices[i - 1])
                 /\ (1 + nv < i /\ i <= 1 + nv + nt) =>
                        lines[i] = VtLine(Geometry.uvs[i - 1 - nv])
                 /\ (1 + nv + nt < i /\ i <= 1 + nv + nt + nn) =>
                        lines[i] = VnLine(Geometry.normals[i - 1 - nv - nt])
                 /\ 1 + nv + nt + nn < i =>
                        /\ lines[i].tag = "f"
                        /\ Len(lines[i].corners) = 4
                        /\ \A k \in 1..4 :
                             LET index == Geometry.faces[i - 1 - nv - nt - nn][k]
                             IN  lines[i].corners[k] =
                                     <<index + 1, index + 1, index + 1>>

\* a complete file with all five sections, and also a write that failed
\* among the 'vn' lines, have been seen
ObjLineOrderWitness ==
    /\ event.handler = "save_obj"
    /\ Len(event.file.lines) > 1 + 2 * Len(Geometry.vertices)
    /\ \/ /\ event.file.complete
          /\ event.file.lines[Len(event.file.lines)].tag = "f"
          /\ Len(Geometry.faces) >= 2
       \/ /\ ~event.file.complete
          /\ event.file.lines[Len(event.file.lines)].tag = "vn"

\* C8: for tilt_angle = 0, cabinets_wide >= 1 and cabinets_high >= 1:
\* chord_length = arc_length = cabinets_wide * cabinet_width_m; the vertex of
\* column x, row y is (x * cabinet_width_m, y * cabinet_height_m, 0) with
\* normal (0, 0, -1) and UV (x / cabinets_wide, y / cabinets_high); and a
\* 2 x 1 wall of 500 mm x 500 mm cabinets has 6 vertices with x in
\* {0, 0.5, 1.0}, y in {0, 0.5}, 2 faces and the UVs {0, 0.5, 1} x {0, 1}.
FlatWall ==
    (/\ Generated
     /\ RatIsZero(Params.tilt_angle)
     /\ Params.cabinets_wide >= 1
     /\ Params.cabinets_high >= 1) =>
        /\ Geometry.curve.chord_length = Geometry.curve.arc_length
        /\ Geometry.curve.arc_length = RatScale(Params.cabinets_wide, WidthM)
        /\ \A x \in 0..Params.cabinets_wide :
             \A y \in 0..Params.cabinets_high :
                /\ Geometry.vertices[Index(x, y) + 1] =
                       <<RatScale(x, WidthM), RatScale(y, HeightM), IntRat(0)>>
                /\ Geometry.normals[Index(x, y) + 1] =
                       <<IntRat(0), IntRat(0), IntRat(-1)>>
                /\ Geometry.uvs[Index(x, y) + 1] =
                       <<Rat(x, Params.cabinets_wide), Rat(y, Params.cabinets_high)>>
        /\ \A i \in 1..Len(Geometry.vertices) :
             Geometry.vertices[i][3] = IntRat(0)
        /\ (/\ Params.cabinets_wide = 2
            /\ Params.cabinets_high = 1
            /\ Params.cabinet_width = 500
            /\ Params.cabinet_height = 500) =>
               /\ Len(Geometry.vertices) = 6
               /\ {Geometry.vertices[i][1] : i \in 1..6} =
                      {IntRat(0), Rat(1, 2), IntRat(1)}
               /\ {Geometry.vertices[i][2] : i \in 1..6} = {IntRat(0), Rat(1, 2)}
               /\ Len(Geometry.faces) = 2
               /\ {Geometry.uvs[i] : i \in 1..6} =
                      {<<u, v>> : u \in {IntRat(0), Rat(1, 2), IntRat(1)},
                                  v \in {IntRat(0), IntRat(1)}}

\* the flat 2 x 1 wall of 500 mm cabinets has been generated
FlatWallWitness ==
    /\ event.handler = "calculate_geometry"
    /\ Generated
    /\ RatIsZero(Params.tilt_angle)
    /\ Params.cabinets_wide = 2
    /\ Params.cabinets_high = 1
    /\ Params.cabinet_width = 500
    /\ Params.cabinet_height = 500
    /\ Len(Geometry.vertices) = 6

\* C5: geometry computation is total on validated input.  With
\* cabinets_wide = 1 and a nonzero tilt_angle, calculate_geometry takes the
\* flat-wall branch: it completes with radius = +infinity, start_angle = 0,
\* central_angle = 0, chord_length = arc_length and the vertices and normals
\* of tilt_angle = 0; and no input with cabinets_wide >= 1, cabinets_high >= 1
\* and positive cabinet sizes makes calculate_geometry or update_data_window
\* raise an arithmetic fault.
GeometryTotal ==
    (/\ Params.cabinets_wide >= 1
     /\ Params.cabinets_high >= 1
     /\ Params.cabinet_width > 0
     /\ Params.cabinet_height > 0) =>
        /\ event.handler \in {"calculate_geometry", "update_data_window"} =>
               event.raised = "none"
        /\ (/\ event.handler = "calculate_geometry"
            /\ Params.cabinets_wide = 1
            /\ ~RatIsZero(Params.tilt_angle)) =>
               /\ Generated
               /\ Geometry.curve.radius = Infinity
               /\ Geometry.curve.start_angle = Radians(IntRat(0))
               /\ Geometry.curve.central_angle = Radians(IntRat(0))
               /\ Geometry.curve.chord_length = Geometry.curve.arc_length
               /\ \A x \in 0..1 :
                    \A y \in 0..Params.cabinets_high :
                       /\ Geometry.vertices[Index(x, y) + 1] =
                              <<RatScale(x, WidthM), RatScale(y, HeightM),
                                IntRat(0)>>
                       /\ Geometry.normals[Index(x, y) + 1] =
                              <<IntRat(0), IntRat(0), IntRat(-1)>>

(***************************************************************************)
(* Properties of the handlers, under Spec.                                 *)
(***************************************************************************)
\* the texts fail numeric validation: a field is not a number, or a count or
\* a size is not positive
FailsValidation(texts) ==
    \/ get_input_params(texts).exc # "none"
    \/ LET p == get_input_params(texts).params
       IN  \/ p.cabinets_wide <= 0
           \/ p.cabinets_high <= 0
           \/ p.cabinet_width <= 0
           \/ p.cabinet_height <= 0
           \/ p.tile_width <= 0
           \/ p.tile_height <= 0

\* C6: when 'Generate OBJ' is pressed and a field fails numeric validation
\* (non-numeric, or a count or size <= 0), the failure is detected before
\* calculate_geometry, generate_vertex_data and generate_faces are invoked and
\* reported as an input error; no save dialog is shown, no file is written
\* and no exception escapes the handler.
InvalidInputRejected ==
    (event.handler = "generate_obj" /\ FailsValidation(inputs)) =>
        /\ event.geometry = NotCalled
        /\ \A i \in 1..Len(event.calls) :
             event.calls[i] \notin {"calculate_geometry", "generate_vertex_data",
                                    "generate_faces"}
        /\ event.boxes = <<INPUT_ERROR>>
        /\ status_bar = ErrorStatus(INPUT_ERROR)
        /\ event.save_dialogs = 0
        /\ ~event.file.opened
        /\ event.raised = "none"

\* the calls of a handler that write a file
WriteCalls(calls) == {i \in 1..Len(calls) : calls[i] \in {"save_obj", "image.save"}}

\* C7: whenever the OBJ file or the test image cannot be written, the input
\* fields being valid, the failure is surfaced as a file error, distinct from
\* the input error; it is reported exactly once per button press, the write
\* is not retried and the success message is not shown.
WriteFailureReported ==
    (/\ event.handler \in {"generate_obj", "generate_test_image"}
     /\ ~FailsValidation(inputs)
     /\ event.write \notin {"not_tried", "ok"}) =>
        /\ event.boxes = <<FILE_ERROR>>
        /\ FILE_ERROR # INPUT_ERROR
        /\ status_bar = ErrorStatus(FILE_ERROR)
        /\ status_bar # ErrorStatus(INPUT_ERROR)
        /\ status_bar \notin {Status("OBJ file generated successfully!"),
                              Status("Test image generated successfully!")}
        /\ Cardinality(WriteCalls(event.calls)) = 1
        /\ event.save_dialogs = 1
        /\ event.raised = "none"

\* 'Generate OBJ' on valid fields failed in the middle of the write
WriteFailureWitness ==
    /\ event.handler = "generate_obj"
    /\ ~FailsValidation(inputs)
    /\ event.write = "IOError"
    /\ event.file.opened
    /\ Len(event.file.lines) > 0
    /\ event.boxes = <<FILE_ERROR>>

PreviewIgnoresInvalidInput ==
    [][event'.handler = "update_preview" =>
          /\ event'.raised = "none"
          /\ \/ canvas' = canvas /\ data_window' = data_window
             \/ /\ event'.geometry.exc = "none"
                /\ canvas'.state = "plotted"
                /\ canvas'.vertices = event'.geometry.vertices
                /\ data_window' = update_data_window(Params').info]_vars

====
